---- MODULE Spec2Model ----
(***************************************************************************)
(* Model of the stealth campaign orchestrator                              *)
(* (src/stealth_lead_generator.py, StealthLeadGenerator) and of the        *)
(* browser session pool it extracts through                                *)
(* (src/neural_protocol_scraper_complete.py, NeuralProtocolScraper).       *)
(*                                                                         *)
(* Both classes are asyncio code: a coroutine runs without interruption    *)
(* from one await to the next, so every action below is the code between   *)
(* two awaits of one coroutine.  Scores, thresholds and the detection risk *)
(* are in hundredths (0.7 is 70).                                          *)
(***************************************************************************)
EXTENDS Integers, Sequences, FiniteSets, TLC

(* ------------------------------ bounds -------------------------------- *)

\* concurrent calls of execute_stealth_campaign
NumTasks == 2
\* campaigns created by create_stealth_campaign
MaxCampaigns == 1
\* longest target list handed to create_stealth_campaign
MaxTargets == 2
\* calls of execute_stealth_campaign per campaign
MaxRuns == 2
\* distinct profiles the targets of a list refer to
NumProfiles == 2
\* calls of extract_linkedin_profile made directly, outside a campaign
MaxCalls == 6
\* proxies initialize_proxy_pool puts in the proxy pool
NumProxies == 2
\* browsers the simplified scraper may leave open before the model stops calling it
MaxOpenBrowsers == 2
\* outcomes the risk estimate observes
MaxObservations == 5

Tasks == 1..NumTasks
CampaignIds == 1..MaxCampaigns

(* --------------------------- configuration ---------------------------- *)

\* stealth_mode_levels: level -> delay_multiplier, in tenths
StealthDelayMultiplier(level) ==
    CASE level = 1 -> 10
      [] level = 2 -> 15
      [] level = 3 -> 20
      [] level = 4 -> 30
      [] level = 5 -> 50

\* a table whose entries for the two highest levels are swapped
StealthBatchSizeSwapped(level) ==
    CASE level = 1 -> 5
      [] level = 2 -> 4
      [] level = 3 -> 3
      [] level = 4 -> 1
      [] level = 5 -> 2

\* stealth_mode_levels: level -> batch_size
StealthBatchSize(level) ==
    CASE level = 1 -> 5
      [] level = 2 -> 4
      [] level = 3 -> 3
      [] level = 4 -> 2
      [] level = 5 -> 1

\* the keys of stealth_mode_levels
StealthModeLevels == 1..5

\* stealth levels given to create_stealth_campaign; 6 is not a key of the table
StealthLevelInputs == {4, 5, 6}

\* the literal of the risk check in the batch loop
DetectionRiskLimit == 70

\* operation_security.emergency_shutdown_threshold
EmergencyShutdownThreshold == 80

\* lead_qualification.high_value_threshold
HighValueThreshold == 80

\* qualification_threshold values given to create_stealth_campaign
ThresholdInputs == {60, 90}

\* lead_quality_score values the analyzer returns
ScoreValues == {70, 90}

\* lead_quality_score values the analyzer returns, one of them between the
\* high-value threshold and the stricter qualification threshold
QualityValues == {60, 85, 90}

\* detection risk values the security monitoring reports
RiskValues == {0, 75}

\* stealth_settings.max_concurrent_sessions, as configured for the model
MaxConcurrentSessions == 1

\* sessions one egress identity may serve at a time
IdentitySessionCap == 1

\* session_count above which release_browser retires a browser
RetireCeiling == 50

\* session_count of the browsers of a pool that has been in use for a while
AgedSessionCount == RetireCeiling - 1

\* the browser_info dict get_available_browser and initialize_browser_pool build
BrowserInfo(id, in_use, session_count) ==
    [browser |-> id, in_use |-> in_use, session_count |-> session_count]

\* the target list of n entries: entry k names profile ((k-1) mod NumProfiles)+1
TargetList(n) == [k \in 1..n |-> ((k - 1) % NumProfiles) + 1]

VARIABLES
    active_campaigns,    \* campaign_id -> StealthCampaign, or NoCampaign
    task,                \* the position and locals of each execute call
    browser_pool,        \* sequence of browser_info records
    next_browser,        \* identity of the next browser object created
    pool_init,           \* initialize_browser_pool: browsers still to create
    replacements,        \* create_replacement_browser tasks scheduled and not finished
    detection_risk,      \* stealth_status["detection_risk"]
    lead_intelligence_cache, \* lead ids, each a <<profile, campaign>> pair
    attempts,            \* history: campaign -> target position -> extractions started
    call,                \* the call of extract_linkedin_profile each coroutine is in
    calls,               \* history: direct calls of extract_linkedin_profile so far
    proxy_pool,          \* sequence of ProxyConfig records
    proxy_of,            \* browser object -> the proxy it was created with, 0 for none
    risk_history,        \* the outcomes the risk estimate has observed, in order
    analysis,            \* the NeuralProfileAnalysis handed to create_lead_intelligence
    lead,                \* the LeadIntelligence create_lead_intelligence returned
    neural_profiles,     \* simplified scraper: the rows of table neural_profiles
    open_browsers,       \* simplified scraper: browsers opened and not quit
    last_call            \* simplified scraper, history: the last call and its result

vars == <<active_campaigns, task, browser_pool, next_browser, pool_init,
          replacements, detection_risk, lead_intelligence_cache, attempts,
          call, calls, proxy_pool, proxy_of, risk_history, analysis, lead,
          neural_profiles, open_browsers, last_call>>

\* the state of the simplified scraper (src/new_repo/neural_protocol_simple.py)
simpleVars == <<neural_profiles, open_browsers, last_call>>

\* the state of StealthLeadGenerator
campaignVars == <<active_campaigns, task, detection_risk, lead_intelligence_cache, attempts,
                  risk_history, analysis, lead, simpleVars>>

\* the proxies of NeuralProtocolScraper
egressVars == <<proxy_pool, proxy_of>>

\* the state of the risk estimate's history and of the lead scoring
scoringVars == <<risk_history, analysis, lead, simpleVars>>

NoCampaign == [status |-> "none"]

\* succeeded is history: the records the run counted in successful_extractions;
\* failed is history: the positions whose extraction gave no record in the run;
\* fault is history: the stage whose own handler caught an exception, if any
IdleTask == [pc |-> "idle", cid |-> 0, i |-> 0, j |-> 0, batch_size |-> 0,
             delay_multiplier |-> 0, extracted |-> <<>>, analyses |-> <<>>, qualified |-> <<>>,
             succeeded |-> 0, failed |-> {}, fault |-> "none"]

\* no call of extract_linkedin_profile in progress
IdleCall == [pc |-> "idle", browser |-> 0]

\* no analysis handed to create_lead_intelligence yet
NoAnalysis == [profile_id |-> 0]

\* no LeadIntelligence created yet
NoLead == [lead_id |-> <<>>]

\* the simplified scraper has not been called yet
NoCall == [op |-> "none"]

\* the state after both constructors: no campaign, no task running; the pool is
\* either about to be filled by initialize_browser_pool or already filled and used
Init ==
    /\ active_campaigns = [c \in CampaignIds |-> NoCampaign]
    /\ task = [t \in Tasks |-> IdleTask]
    /\ \/ /\ browser_pool = <<>>
          /\ next_browser = 1
          /\ pool_init = MaxConcurrentSessions
       \/ /\ browser_pool = [x \in 1..MaxConcurrentSessions |->
                                 BrowserInfo(x, FALSE, AgedSessionCount)]
          /\ next_browser = MaxConcurrentSessions + 1
          /\ pool_init = 0
    /\ replacements = 0
    /\ detection_risk = 0
    /\ lead_intelligence_cache = {}
    /\ attempts = [c \in CampaignIds |-> [k \in 1..MaxTargets |-> 0]]
    /\ call = [t \in Tasks |-> IdleCall]
    /\ calls = 0
    /\ proxy_pool = <<>>
    /\ proxy_of = [b \in 1..(next_browser - 1) |-> 0]
    /\ risk_history = <<>>
    /\ analysis = NoAnalysis
    /\ lead = NoLead
    /\ neural_profiles = {}
    /\ open_browsers = 0
    /\ last_call = NoCall

\* create_stealth_campaign: a new campaign in status planning
create_stealth_campaign(c, targets, level, threshold) ==
    /\ active_campaigns[c] = NoCampaign
    /\ \A d \in CampaignIds : d < c => active_campaigns[d] # NoCampaign
    /\ active_campaigns' = [active_campaigns EXCEPT ![c] =
          [status |-> "planning",
           extraction_targets |-> targets,
           stealth_level |-> level,
           lead_qualification_threshold |-> threshold,
           total_targets |-> Len(targets),
           processed_targets |-> 0,
           successful_extractions |-> 0,
           qualified_leads |-> 0,
           high_value_leads |-> 0,
           qualified_leads_list |-> <<>>,
           runs |-> 0]]
    /\ UNCHANGED <<task, browser_pool, next_browser, pool_init, replacements,
                   detection_risk, lead_intelligence_cache, attempts, call, calls,
                   egressVars, scoringVars>>

(* --------------------------- session pool ----------------------------- *)

\* positions of browser_pool holding the browser object id
PoolIndex(pool, id) == {x \in 1..Len(pool) : pool[x].browser = id}

\* a scan that does not look at in_use
FreeIndexAny(pool) == 1..Len(pool)

\* positions of browser_pool whose entry is not in use
FreeIndex(pool) == {x \in 1..Len(pool) : ~pool[x].in_use}

\* the first position of a non-empty set of positions (the for loop's scan order)
FirstOf(S) == CHOOSE x \in S : \A y \in S : x <= y

\* list.remove: the pool without its entry at position x
RemoveAt(pool, x) == [y \in 1..(Len(pool) - 1) |-> IF y < x THEN pool[y] ELSE pool[y + 1]]

\* get_available_browser, the scan: lease the first entry that is not in use
LeaseFree(pool) ==
    LET x == FirstOf(FreeIndex(pool))
    IN [pool EXCEPT ![x] = BrowserInfo(pool[x].browser, TRUE, pool[x].session_count + 1)]

\* a release that marks the entry free only after quit() returned
ReleasedPoolAfterQuit(pool, id, quit_ok) ==
    LET x == FirstOf(PoolIndex(pool, id))
        freed == [pool EXCEPT ![x] = BrowserInfo(id, FALSE, pool[x].session_count)]
    IN IF pool[x].session_count > RetireCeiling
       THEN IF quit_ok THEN RemoveAt(freed, x) ELSE pool
       ELSE freed

\* release_browser: mark free; above the ceiling quit the browser and remove the entry.
\* quit_ok = FALSE is browser.quit() raising, which the handler only logs.
ReleasedPool(pool, id, quit_ok) ==
    LET x == FirstOf(PoolIndex(pool, id))
        freed == [pool EXCEPT ![x] = BrowserInfo(id, FALSE, pool[x].session_count)]
    IN IF pool[x].session_count > RetireCeiling /\ quit_ok
       THEN RemoveAt(freed, x)
       ELSE freed

\* release_browser schedules create_replacement_browser when it removed the entry
ReleaseSchedules(pool, id, quit_ok) ==
    LET x == FirstOf(PoolIndex(pool, id))
    IN IF pool[x].session_count > RetireCeiling /\ quit_ok THEN 1 ELSE 0

\* ProxyConfig as initialize_proxy_pool builds it
ProxyConfig == [is_active |-> TRUE, concurrent_sessions |-> 0]

\* initialize_proxy_pool: the proxy pool is filled, every proxy active
initialize_proxy_pool ==
    /\ proxy_pool = <<>>
    /\ proxy_pool' = [x \in 1..NumProxies |-> ProxyConfig]
    /\ UNCHANGED <<campaignVars, browser_pool, next_browser, pool_init, replacements,
                   call, calls, proxy_of>>

\* an identity is marked inactive (its health fell below the floor, or it was
\* implicated in a detection signal); nothing marks it active again
deactivate_proxy(p) ==
    /\ p \in 1..Len(proxy_pool)
    /\ proxy_pool[p].is_active
    /\ proxy_pool' = [proxy_pool EXCEPT ![p].is_active = FALSE]
    /\ UNCHANGED <<campaignVars, browser_pool, next_browser, pool_init, replacements,
                   call, calls, proxy_of>>

\* a choice among all the proxies of the pool, active or not
ProxyChoiceAny(proxies) ==
    IF proxies = <<>>
    THEN {0}
    ELSE 1..Len(proxies)

\* the proxies create_stealth_browser chooses among: the active ones of a
\* non-empty proxy pool, and no proxy (0) when the pool is empty
ProxyChoice(proxies) ==
    IF proxies = <<>>
    THEN {0}
    ELSE {x \in 1..Len(proxies) : proxies[x].is_active}

\* create_stealth_browser: a new browser object with a proxy chosen at random,
\* or None when anything in it raised
create_stealth_browser(created) ==
    IF created
    THEN /\ next_browser' = next_browser + 1
         /\ \E proxy \in ProxyChoice(proxy_pool) : proxy_of' = Append(proxy_of, proxy)
    ELSE UNCHANGED <<next_browser, proxy_of>>

\* initialize_browser_pool, one iteration: create a browser, append it when created
initialize_browser_pool(created) ==
    /\ pool_init > 0
    /\ pool_init' = pool_init - 1
    /\ create_stealth_browser(created)
    /\ IF created
       THEN browser_pool' = Append(browser_pool, BrowserInfo(next_browser, FALSE, 0))
       ELSE UNCHANGED browser_pool
    /\ UNCHANGED <<campaignVars, replacements, call, calls, proxy_pool>>

\* create_replacement_browser: the task release_browser scheduled
create_replacement_browser(created) ==
    /\ replacements > 0
    /\ replacements' = replacements - 1
    /\ create_stealth_browser(created)
    /\ IF created
       THEN browser_pool' = Append(browser_pool, BrowserInfo(next_browser, FALSE, 0))
       ELSE UNCHANGED browser_pool
    /\ UNCHANGED <<campaignVars, pool_init, call, calls, proxy_pool>>

\* extract_linkedin_profile is called by coroutine s: get_available_browser scans
\* the pool and leases the first free entry; with none free it awaits
\* create_stealth_browser
extract_linkedin_profile(s) ==
    /\ call[s].pc = "idle"
    /\ IF FreeIndex(browser_pool) # {}
       THEN /\ browser_pool' = LeaseFree(browser_pool)
            /\ call' = [call EXCEPT ![s] =
                  [pc |-> "extracting",
                   browser |-> browser_pool[FirstOf(FreeIndex(browser_pool))].browser]]
       ELSE /\ call' = [call EXCEPT ![s] = [pc |-> "creating", browser |-> 0]]
            /\ UNCHANGED browser_pool
    /\ UNCHANGED <<next_browser, pool_init, replacements, egressVars>>

\* a get_available_browser that appends the entry without testing the browser
get_available_browser_unchecked(s, created) ==
    /\ call[s].pc = "creating"
    /\ create_stealth_browser(created)
    /\ LET browser == IF created THEN next_browser ELSE 0
       IN /\ browser_pool' = Append(browser_pool, BrowserInfo(browser, TRUE, 1))
          /\ call' = [call EXCEPT ![s] = [pc |-> "extracting", browser |-> browser]]
    /\ UNCHANGED <<pool_init, replacements, proxy_pool>>

\* get_available_browser after create_stealth_browser returned: a created browser
\* is appended as in use; with none it returns None and so does the extraction
get_available_browser(s, created) ==
    /\ call[s].pc = "creating"
    /\ create_stealth_browser(created)
    /\ IF created
       THEN /\ browser_pool' = Append(browser_pool, BrowserInfo(next_browser, TRUE, 1))
            /\ call' = [call EXCEPT ![s] = [pc |-> "extracting", browser |-> next_browser]]
       ELSE /\ call' = [call EXCEPT ![s] = IdleCall]
            /\ UNCHANGED browser_pool
    /\ UNCHANGED <<pool_init, replacements, proxy_pool>>

\* the finally clause of extract_linkedin_profile: release_browser, and the call
\* returns
release_browser(s, quit_ok) ==
    /\ call[s].pc = "extracting"
    /\ browser_pool' = ReleasedPool(browser_pool, call[s].browser, quit_ok)
    /\ replacements' = replacements + ReleaseSchedules(browser_pool, call[s].browser, quit_ok)
    /\ proxy_of' = IF ReleaseSchedules(browser_pool, call[s].browser, quit_ok) = 1
                   THEN [proxy_of EXCEPT ![call[s].browser] = 0]
                   ELSE proxy_of
    /\ call' = [call EXCEPT ![s] = IdleCall]
    /\ UNCHANGED <<next_browser, pool_init, proxy_pool>>

\* a coroutine other than a campaign run calls extract_linkedin_profile
DirectCall(s) ==
    /\ calls < MaxCalls
    /\ extract_linkedin_profile(s)
    /\ calls' = calls + 1
    /\ UNCHANGED campaignVars

\* the direct call resumes after create_stealth_browser
DirectCreateDone(s, created) ==
    /\ get_available_browser(s, created)
    /\ UNCHANGED <<campaignVars, calls>>

\* the direct call ends, with a record or with None
DirectReturn(s, quit_ok) ==
    /\ release_browser(s, quit_ok)
    /\ UNCHANGED <<campaignVars, calls>>

(* ------------------------- risk (security monitor) -------------------- *)

\* continuous_security_monitoring: the monitor task reports a new risk value
continuous_security_monitoring(r) ==
    /\ detection_risk # r
    /\ detection_risk' = r
    /\ UNCHANGED <<active_campaigns, task, browser_pool, next_browser, pool_init,
                   replacements, lead_intelligence_cache, attempts, call, calls,
                   egressVars, scoringVars>>

\* the outcomes of an extraction attempt the risk estimate is told of
Outcomes == {"success", "failure", "detected"}

\* a detected outcome raises the risk sharply
DetectedRiskStep == 30

\* a failure raises the risk moderately
FailureRiskStep == 10

\* the largest risk value, 1.0
RiskCeiling == 100

\* a risk update that adds without clamping
RiskAfterUnclamped(risk, outcome) ==
    CASE outcome = "detected" -> risk + DetectedRiskStep
      [] outcome = "failure" -> risk + FailureRiskStep
      [] outcome = "success" -> (risk * 9) \div 10

\* the risk after one observed outcome: detected and failure raise it, clamped
\* to 1.0; a success decays it by a tenth toward 0
RiskAfter(risk, outcome) ==
    CASE outcome = "detected" ->
            IF risk + DetectedRiskStep > RiskCeiling THEN RiskCeiling
            ELSE risk + DetectedRiskStep
      [] outcome = "failure" ->
            IF risk + FailureRiskStep > RiskCeiling THEN RiskCeiling
            ELSE risk + FailureRiskStep
      [] outcome = "success" -> (risk * 9) \div 10

\* observe: the risk estimate is told the outcome of an extraction attempt
observe(outcome) ==
    /\ Len(risk_history) < MaxObservations
    /\ risk_history' = Append(risk_history, outcome)
    /\ detection_risk' = RiskAfter(detection_risk, outcome)
    /\ UNCHANGED <<active_campaigns, task, browser_pool, next_browser, pool_init,
                   replacements, lead_intelligence_cache, attempts, call, calls,
                   egressVars, analysis, lead, simpleVars>>

\* check_detection_risk: the current risk value
check_detection_risk == detection_risk

\* emergency_pause: the campaign is suspended
emergency_pause(campaign) == [campaign EXCEPT !.status = "paused"]

(* ------------------------------ campaign ------------------------------ *)

\* execute_stealth_campaign up to its first await: status active, stealth_params
\* looked up; a level that is no key of the table raises KeyError, which the
\* handler turns into status failed before re-raising.  (An unknown campaign_id
\* raises ValueError and changes nothing, so it is no step.)
execute_stealth_campaign(t, c) ==
    /\ task[t].pc = "idle"
    /\ active_campaigns[c] # NoCampaign
    /\ active_campaigns[c].runs < MaxRuns
    /\ LET campaign == active_campaigns[c]
       IN IF campaign.stealth_level \in StealthModeLevels
          THEN /\ active_campaigns' = [active_campaigns EXCEPT ![c] =
                     [campaign EXCEPT !.status = "active", !.runs = @ + 1]]
               /\ task' = [task EXCEPT ![t] =
                     [IdleTask EXCEPT !.pc = "batch", !.cid = c,
                        !.batch_size = StealthBatchSize(campaign.stealth_level),
                        !.delay_multiplier =
                            StealthDelayMultiplier(campaign.stealth_level)]]
          ELSE /\ active_campaigns' = [active_campaigns EXCEPT ![c] =
                     [campaign EXCEPT !.status = "failed", !.runs = @ + 1]]
               /\ task' = [task EXCEPT ![t] = IdleTask]
    /\ UNCHANGED <<browser_pool, next_browser, pool_init, replacements,
                   detection_risk, lead_intelligence_cache, attempts, call, calls,
                   egressVars, scoringVars>>

\* the slice targets[i:i + batch_size] has this many entries
BatchLen(tk, campaign) ==
    IF tk.i + tk.batch_size <= Len(campaign.extraction_targets)
    THEN tk.batch_size
    ELSE Len(campaign.extraction_targets) - tk.i

\* execute_neural_extraction, top of the batch loop: the loop ends when the range
\* is exhausted; the risk check pauses the campaign and breaks; otherwise the
\* batch is sliced and its first target is next.
BatchStart(t) ==
    /\ task[t].pc = "batch"
    /\ LET tk == task[t]
           campaign == active_campaigns[tk.cid]
       IN IF tk.i >= Len(campaign.extraction_targets)
          THEN /\ task' = [task EXCEPT ![t].pc = "analysis"]
               /\ UNCHANGED active_campaigns
          ELSE IF check_detection_risk > DetectionRiskLimit
          THEN /\ active_campaigns' = [active_campaigns EXCEPT ![tk.cid] =
                     emergency_pause(campaign)]
               /\ task' = [task EXCEPT ![t].pc = "analysis"]
          ELSE /\ task' = [task EXCEPT ![t].pc = "target", ![t].j = 1]
               /\ UNCHANGED active_campaigns
    /\ UNCHANGED <<browser_pool, next_browser, pool_init, replacements,
                   detection_risk, lead_intelligence_cache, attempts, call, calls,
                   egressVars, scoringVars>>

\* the task after the target at position i + j is done: next target of the batch,
\* or the next batch
Advance(tk, campaign) ==
    IF tk.j < BatchLen(tk, campaign)
    THEN [tk EXCEPT !.pc = "target", !.j = @ + 1]
    ELSE [tk EXCEPT !.pc = "batch", !.i = @ + tk.batch_size, !.j = 0]

\* a batch loop whose handler gives the campaign up when an extraction raises
CountTargetAbort(campaign, outcome) ==
    CASE outcome = "record" ->
            [campaign EXCEPT !.successful_extractions = @ + 1,
                             !.processed_targets = @ + 1]
      [] outcome = "none" ->
            [campaign EXCEPT !.processed_targets = @ + 1]
      [] outcome = "raise" -> [campaign EXCEPT !.status = "failed"]

\* lines 528-541 of the batch loop for one target, given what the extraction did:
\* a record is appended and counted, None is only logged, and both count the
\* target as processed; an error skips to the next target.
CountTarget(campaign, outcome) ==
    CASE outcome = "record" ->
            [campaign EXCEPT !.successful_extractions = @ + 1,
                             !.processed_targets = @ + 1]
      [] outcome = "none" ->
            [campaign EXCEPT !.processed_targets = @ + 1]
      [] outcome = "raise" -> campaign

\* a batch loop that appends whatever the extraction returned
CollectAll(tk, outcome) ==
    IF outcome = "record"
    THEN [tk EXCEPT !.extracted = Append(@, tk.i + tk.j), !.succeeded = @ + 1]
    ELSE [tk EXCEPT !.extracted = Append(@, tk.i + tk.j), !.failed = @ \cup {tk.i + tk.j}]

\* extracted_profiles after the target at position i + j
Collect(tk, outcome) ==
    IF outcome = "record"
    THEN [tk EXCEPT !.extracted = Append(@, tk.i + tk.j), !.succeeded = @ + 1]
    ELSE [tk EXCEPT !.failed = @ \cup {tk.i + tk.j}]

\* the stealth delay is over and the batch loop calls extract_linkedin_profile
\* for the target at position i + j
ExtractBegin(t) ==
    /\ task[t].pc = "target"
    /\ extract_linkedin_profile(t)
    /\ task' = [task EXCEPT ![t].pc = "extracting"]
    /\ attempts' = [attempts EXCEPT ![task[t].cid][task[t].i + task[t].j] = @ + 1]
    /\ UNCHANGED <<active_campaigns, detection_risk, lead_intelligence_cache, calls,
                   scoringVars>>

\* create_stealth_browser returned inside the run's extraction: with a browser the
\* extraction goes on; with none it returns None and the batch loop counts the
\* target
CreateDone(t, created) ==
    /\ task[t].pc = "extracting"
    /\ get_available_browser(t, created)
    /\ LET tk == task[t]
           campaign == active_campaigns[tk.cid]
       IN IF created
          THEN UNCHANGED <<active_campaigns, task>>
          ELSE /\ active_campaigns' = [active_campaigns EXCEPT ![tk.cid] =
                     CountTarget(campaign, "none")]
               /\ task' = [task EXCEPT ![t] = Advance(Collect(tk, "none"), campaign)]
    /\ UNCHANGED <<detection_risk, lead_intelligence_cache, attempts, calls, scoringVars>>

\* the run's extraction ends: the finally clause releases the browser, then the
\* batch loop counts the target
ExtractEnd(t, outcome, quit_ok) ==
    /\ task[t].pc = "extracting"
    /\ release_browser(t, quit_ok)
    /\ LET tk == task[t]
           campaign == active_campaigns[tk.cid]
       IN /\ active_campaigns' = [active_campaigns EXCEPT ![tk.cid] =
                CountTarget(campaign, outcome)]
          /\ task' = [task EXCEPT ![t] = Advance(Collect(tk, outcome), campaign)]
    /\ UNCHANGED <<detection_risk, lead_intelligence_cache, attempts, calls, scoringVars>>

\* the analyses execute_neural_analysis returns for the profiles, when the
\* analyzer's result for the m-th profile is result[m]: a lead_quality_score, or
\* -1 for an analysis that raised and was skipped
Analyses(profiles, result) ==
    LET all == [m \in 1..Len(profiles) |->
                   [target |-> profiles[m], lead_quality_score |-> result[m]]]
        Done(a) == a.lead_quality_score # -1
    IN SelectSeq(all, Done)

\* a filter that takes a score equal to the threshold as not reaching it
QualifiedLeadsStrict(analyses, threshold) ==
    LET Reaches(a) == a.lead_quality_score > threshold
    IN SelectSeq(analyses, Reaches)

\* the analyses whose lead_quality_score reaches the threshold, in order
QualifiedLeads(analyses, threshold) ==
    LET Reaches(a) == a.lead_quality_score >= threshold
    IN SelectSeq(analyses, Reaches)

\* a qualification that tests the high-value threshold beside the campaign's
\* threshold, not under it
execute_lead_qualification_unnested(t, result) ==
    /\ task[t].pc = "analysis"
    /\ LET tk == task[t]
           campaign == active_campaigns[tk.cid]
           scored == Analyses(tk.extracted, result)
           leads == QualifiedLeads(scored, campaign.lead_qualification_threshold)
       IN /\ task' = [task EXCEPT ![t].pc = "intelligence", ![t].analyses = scored,
                                  ![t].qualified = leads]
          /\ active_campaigns' = [active_campaigns EXCEPT ![tk.cid] =
                [campaign EXCEPT
                   !.qualified_leads = @ + Len(leads),
                   !.high_value_leads = @ + Len(QualifiedLeads(scored, HighValueThreshold))]]
    /\ UNCHANGED <<browser_pool, next_browser, pool_init, replacements,
                   detection_risk, lead_intelligence_cache, attempts, call, calls,
                   egressVars, scoringVars>>

\* execute_neural_analysis, whose last analysis returns, and then
\* execute_lead_qualification, which has no await: one analysis per extracted
\* profile in order, filtered by the campaign's threshold and counted
execute_lead_qualification(t, result) ==
    /\ task[t].pc = "analysis"
    /\ LET tk == task[t]
           campaign == active_campaigns[tk.cid]
           scored == Analyses(tk.extracted, result)
           leads == QualifiedLeads(scored, campaign.lead_qualification_threshold)
       IN /\ task' = [task EXCEPT ![t].pc = "intelligence", ![t].analyses = scored,
                                  ![t].qualified = leads]
          /\ active_campaigns' = [active_campaigns EXCEPT ![tk.cid] =
                [campaign EXCEPT
                   !.qualified_leads = @ + Len(leads),
                   !.high_value_leads = @ + Len(QualifiedLeads(leads, HighValueThreshold))]]
    /\ UNCHANGED <<browser_pool, next_browser, pool_init, replacements,
                   detection_risk, lead_intelligence_cache, attempts, call, calls,
                   egressVars, scoringVars>>

\* create_lead_intelligence: lead_id is built from profile_id and campaign_id
LeadId(campaign, c, a) == <<campaign.extraction_targets[a.target], c>>

\* intelligence_reports: the lead_id of the report created for each qualified
\* analysis, in order
IntelligenceReports(campaign, c, qualified) ==
    [m \in 1..Len(qualified) |-> LeadId(campaign, c, qualified[m])]

\* generate_lead_intelligence, then the end of execute_stealth_campaign: every
\* report is put in the cache under its lead_id and the campaign is completed
generate_lead_intelligence(t) ==
    /\ task[t].pc = "intelligence"
    /\ LET tk == task[t]
           campaign == active_campaigns[tk.cid]
           reports == IntelligenceReports(campaign, tk.cid, tk.qualified)
       IN /\ lead_intelligence_cache' = lead_intelligence_cache \cup
                {reports[m] : m \in 1..Len(reports)}
          /\ active_campaigns' = [active_campaigns EXCEPT ![tk.cid].status = "completed"]
          /\ task' = [task EXCEPT ![t] = [IdleTask EXCEPT !.fault = tk.fault]]
    /\ UNCHANGED <<browser_pool, next_browser, pool_init, replacements,
                   detection_risk, attempts, call, calls, egressVars, scoringVars>>

\* the dictionary execute_stealth_campaign returns for a completed campaign
\* (metrics and success_rate left out)
CampaignResult(campaign) ==
    [status |-> "completed",
     qualified_leads |-> Len(campaign.qualified_leads_list),
     high_value_leads |-> campaign.high_value_leads]

\* the handler of execute_neural_extraction itself: an exception outside the
\* per-target try, raised at the top of a batch by the risk check, is logged and
\* the stage returns [] in place of the records collected so far
ExtractionFault(t) ==
    /\ task[t].pc = "batch"
    /\ task[t].i < Len(active_campaigns[task[t].cid].extraction_targets)
    /\ task' = [task EXCEPT ![t].pc = "analysis", ![t].extracted = <<>>,
                            ![t].fault = "extraction"]
    /\ UNCHANGED <<active_campaigns, browser_pool, next_browser, pool_init, replacements,
                   detection_risk, lead_intelligence_cache, attempts, call, calls,
                   egressVars, scoringVars>>

\* the handler of execute_neural_analysis itself: the stage returns [], and
\* execute_lead_qualification, given no analysis, qualifies none
AnalysisFault(t) ==
    /\ task[t].pc = "analysis"
    /\ task' = [task EXCEPT ![t].pc = "intelligence", ![t].analyses = <<>>,
                            ![t].qualified = <<>>, ![t].fault = "analysis"]
    /\ UNCHANGED <<active_campaigns, browser_pool, next_browser, pool_init, replacements,
                   detection_risk, lead_intelligence_cache, attempts, call, calls,
                   egressVars, scoringVars>>

\* the handler of execute_lead_qualification itself: the comparison of the k-th
\* analysis raises; the analyses before it are counted, and the stage returns []
QualificationFault(t, result, k) ==
    /\ task[t].pc = "analysis"
    /\ LET tk == task[t]
           campaign == active_campaigns[tk.cid]
           scored == Analyses(tk.extracted, result)
           leads == QualifiedLeads(SubSeq(scored, 1, k - 1),
                                   campaign.lead_qualification_threshold)
       IN /\ k \in 1..Len(scored)
          /\ task' = [task EXCEPT ![t].pc = "intelligence", ![t].analyses = scored,
                                  ![t].qualified = <<>>, ![t].fault = "qualification"]
          /\ active_campaigns' = [active_campaigns EXCEPT ![tk.cid] =
                [campaign EXCEPT
                   !.qualified_leads = @ + Len(leads),
                   !.high_value_leads = @ + Len(QualifiedLeads(leads, HighValueThreshold))]]
    /\ UNCHANGED <<browser_pool, next_browser, pool_init, replacements,
                   detection_risk, lead_intelligence_cache, attempts, call, calls,
                   egressVars, scoringVars>>

\* the handler of generate_lead_intelligence itself, reached from the statement
\* after the loop (an exception inside the loop is caught per analysis): the
\* reports are in the cache, the stage returns [], and execute_stealth_campaign
\* goes on to complete the campaign
IntelligenceFault(t) ==
    /\ task[t].pc = "intelligence"
    /\ LET tk == task[t]
           campaign == active_campaigns[tk.cid]
           reports == IntelligenceReports(campaign, tk.cid, tk.qualified)
       IN /\ lead_intelligence_cache' = lead_intelligence_cache \cup
                {reports[m] : m \in 1..Len(reports)}
          /\ active_campaigns' = [active_campaigns EXCEPT ![tk.cid].status = "completed"]
          /\ task' = [task EXCEPT ![t] = [IdleTask EXCEPT !.fault = "intelligence"]]
    /\ UNCHANGED <<browser_pool, next_browser, pool_init, replacements,
                   detection_risk, attempts, call, calls, egressVars, scoringVars>>

(* --------------------------- lead scoring ----------------------------- *)

\* lead_qualification.tier_thresholds
PlatinumThreshold == 90
GoldThreshold == 75
SilverThreshold == 60

\* lead_quality_score values handed to the scoring, the thresholds and their
\* neighbours among them
QualityInputs == {10, 59, 60, 65, 74, 75, 80, 89, 90, 92, 100}

\* values of the three other scores of an analysis
ConversionInputs == {0, 60, 100}
EngagementInputs == {0, 50, 100}
PropensityInputs == {0, 40, 100}

\* a tier lookup that compares with > instead of >=
determine_lead_tier_strict(lead_score) ==
    IF lead_score > PlatinumThreshold THEN "platinum"
    ELSE IF lead_score > GoldThreshold THEN "gold"
    ELSE IF lead_score > SilverThreshold THEN "silver"
    ELSE "bronze"

\* determine_lead_tier: the first threshold the score reaches, else bronze
determine_lead_tier(lead_score) ==
    IF lead_score >= PlatinumThreshold THEN "platinum"
    ELSE IF lead_score >= GoldThreshold THEN "gold"
    ELSE IF lead_score >= SilverThreshold THEN "silver"
    ELSE "bronze"

\* a priority score with the weights of conversion and engagement exchanged
calculate_priority_score_swapped(a) ==
      a.lead_quality_score * 4
    + a.conversion_probability_score * 2
    + a.engagement_likelihood_score * 3
    + a.investment_propensity_score * 1

\* calculate_priority_score: the weighted sum of the four scores, weights 0.4,
\* 0.3, 0.2, 0.1; scores in hundredths give the sum in thousandths
calculate_priority_score(a) ==
      a.lead_quality_score * 4
    + a.conversion_probability_score * 3
    + a.engagement_likelihood_score * 2
    + a.investment_propensity_score * 1

\* analyze_profile_neural returned the analysis of a profile, and the loop of
\* generate_lead_intelligence, done with the analysis before, takes it
analyze_profile_neural(profile, quality, conversion, engagement, propensity) ==
    /\ analysis = NoAnalysis \/ lead # NoLead
    /\ analysis' = [profile_id |-> profile,
                    lead_quality_score |-> quality,
                    conversion_probability_score |-> conversion,
                    engagement_likelihood_score |-> engagement,
                    investment_propensity_score |-> propensity]
    /\ lead' = NoLead
    /\ UNCHANGED <<active_campaigns, task, browser_pool, next_browser, pool_init,
                   replacements, detection_risk, lead_intelligence_cache, attempts,
                   call, calls, egressVars, risk_history, simpleVars>>

\* create_lead_intelligence for the analysis, in campaign c: lead_id, tier and
\* priority score of the LeadIntelligence it returns
create_lead_intelligence(c) ==
    /\ analysis # NoAnalysis
    /\ lead = NoLead
    /\ lead' = [lead_id |-> <<analysis.profile_id, c>>,
                lead_tier |-> determine_lead_tier(analysis.lead_quality_score),
                priority_score |-> calculate_priority_score(analysis)]
    /\ UNCHANGED <<active_campaigns, task, browser_pool, next_browser, pool_init,
                   replacements, detection_risk, lead_intelligence_cache, attempts,
                   call, calls, egressVars, risk_history, analysis, simpleVars>>

(* ------------------------ simplified scraper --------------------------- *)

\* the text an element of the page gives, "" standing for no such element
TextValues == {"", "a"}

\* the profile_data dictionaries, keyed by profile_id; title stands for the
\* columns title, company and location, which are read and written alike
ProfileData == [profile_id : 1..NumProfiles, full_name : TextValues, title : TextValues]

\* the profile_data of a call that does not get as far as building it
NoProfile == [profile_id |-> 0]

\* the steps of extract_linkedin_profile that may raise, and "none" for a call
\* in which nothing raises
FailingSteps == {"chrome", "get", "wait", "find", "none"}

\* a plain INSERT, which keeps the rows already stored under the key
InsertInto(rows, profile_data) == rows \cup {profile_data}

\* INSERT OR REPLACE INTO neural_profiles: the rows with the same primary key
\* profile_id are deleted and the new row is inserted
InsertOrReplace(rows, profile_data) ==
    {r \in rows : r.profile_id # profile_data.profile_id} \cup {profile_data}

\* save_profile: the row is written and committed; when the database raises,
\* the error is logged and nothing is stored
save_profile(rows, profile_data, db_ok) ==
    IF db_ok THEN InsertOrReplace(rows, profile_data) ELSE rows

\* save_profile called on its own; the history notes whether a row with other
\* values was stored under the key before
SaveProfile(profile_data, db_ok) ==
    /\ neural_profiles' = save_profile(neural_profiles, profile_data, db_ok)
    /\ last_call' = [op |-> "save", profile_data |-> profile_data, stored |-> db_ok,
                     replaced |-> \E r \in neural_profiles :
                                    /\ r.profile_id = profile_data.profile_id
                                    /\ r # profile_data]
    /\ UNCHANGED <<active_campaigns, task, browser_pool, next_browser, pool_init,
                   replacements, detection_risk, lead_intelligence_cache, attempts,
                   call, calls, egressVars, risk_history, analysis, lead, open_browsers>>

\* extract_linkedin_profile of the simplified scraper, which has no await: without
\* Selenium it returns None at once; webdriver.Chrome raising opens no browser;
\* get, the wait or a find_element raising anything but NoSuchElementException
\* goes to the handler, which returns None; otherwise the browser is quit, the
\* profile saved and returned
ExtractProfile(selenium_available, failing, profile_data, db_ok) ==
    /\ open_browsers < MaxOpenBrowsers
    /\ IF ~selenium_available
       THEN /\ last_call' = [op |-> "extract", selenium |-> FALSE, result |-> "None"]
            /\ UNCHANGED <<neural_profiles, open_browsers>>
       ELSE IF failing = "chrome"
       THEN /\ last_call' = [op |-> "extract", selenium |-> TRUE, result |-> "None"]
            /\ UNCHANGED <<neural_profiles, open_browsers>>
       ELSE IF failing \in {"get", "wait", "find"}
       THEN /\ last_call' = [op |-> "extract", selenium |-> TRUE, result |-> "None"]
            /\ open_browsers' = open_browsers + 1
            /\ UNCHANGED neural_profiles
       ELSE /\ profile_data \in ProfileData
            /\ last_call' = [op |-> "extract", selenium |-> TRUE, result |-> "profile"]
            /\ neural_profiles' = save_profile(neural_profiles, profile_data, db_ok)
            /\ UNCHANGED open_browsers
    /\ UNCHANGED <<active_campaigns, task, browser_pool, next_browser, pool_init,
                   replacements, detection_risk, lead_intelligence_cache, attempts,
                   call, calls, egressVars, risk_history, analysis, lead>>

(* ------------------------------ claims -------------------------------- *)

Created == {c \in CampaignIds : active_campaigns[c] # NoCampaign}

\* the tasks executing campaign c
Running(c) == {t \in Tasks : task[t].pc # "idle" /\ task[t].cid = c}

\* task t is inside a batch, between two targets or on one
MidBatch(t) == task[t].pc \in {"target", "extracting"}

\* C1: for every campaign, after every batch and after the qualification stage,
\* processed_targets <= total_targets and qualified_leads <= successful_extractions,
\* for any sequence of create and execute calls.
C1_CountersBounded ==
    \A c \in Created :
        (\A t \in Running(c) : ~MidBatch(t)) =>
            /\ active_campaigns[c].processed_targets <= active_campaigns[c].total_targets
            /\ active_campaigns[c].qualified_leads <= active_campaigns[c].successful_extractions

\* C2: the pool never leases one session to two callers at once: two extractions
\* in progress never hold the same browser.
C2_NoDoubleLease ==
    \A s, u \in Tasks :
        (s # u /\ call[s].pc = "extracting" /\ call[u].pc = "extracting")
            => call[s].browser # call[u].browser

\* two extractions in progress at once, the second on a session that had been
\* leased before
C2_Witness ==
    /\ \A s \in Tasks : call[s].pc = "extracting"
    /\ \E x \in 1..Len(browser_pool) :
          browser_pool[x].in_use /\ browser_pool[x].session_count > 1

\* C3: execute on a campaign that is already active, completed or failed is
\* rejected: it does not enter the batch loop and leaves status and counters
\* unchanged.
C3_ReentryRejected ==
    [][\A t \in Tasks, c \in CampaignIds :
          (/\ execute_stealth_campaign(t, c)
           /\ active_campaigns[c].status \in {"active", "completed", "failed"})
          => /\ task'[t].pc = "idle"
             /\ active_campaigns'[c].status = active_campaigns[c].status
             /\ active_campaigns'[c].processed_targets = active_campaigns[c].processed_targets
             /\ active_campaigns'[c].successful_extractions
                    = active_campaigns[c].successful_extractions]_vars

\* the status edges of a campaign
StatusEdges ==
    {<<"none", "planning">>, <<"planning", "active">>, <<"active", "paused">>,
     <<"paused", "active">>, <<"active", "completed">>,
     <<"planning", "failed">>, <<"active", "failed">>, <<"paused", "failed">>}

\* C4: a campaign's status changes only along planning->active, active->paused,
\* paused->active, active->completed and (non-terminal)->failed; a completed or
\* failed campaign never changes status again.
C4_StatusEdgesOnly ==
    [][\A c \in CampaignIds :
          active_campaigns'[c].status # active_campaigns[c].status
            => <<active_campaigns[c].status, active_campaigns'[c].status>> \in StatusEdges]_vars

\* C5: a campaign paused after k of its n targets and then resumed processes
\* exactly targets k+1..n: the resumed run starts at the first unprocessed target.
C5_ResumeFromNextTarget ==
    [][\A t \in Tasks, c \in CampaignIds :
          (/\ execute_stealth_campaign(t, c)
           /\ active_campaigns[c].status = "paused")
          => task'[t].i = active_campaigns[c].processed_targets]_vars

\* C6: when the risk check says pause the campaign moves to paused and stays
\* paused until an explicit resume (a call of execute); it is not moved to
\* completed while targets remain.
C6_PausedUntilResume ==
    [][\A c \in CampaignIds :
          (/\ active_campaigns[c].status = "paused"
           /\ active_campaigns'[c].status # "paused")
          => \E t \in Tasks : execute_stealth_campaign(t, c)]_vars

\* the position in the target list of the target task record tk is on
OnTarget(tk) == tk.i + tk.j

\* the position of the target tk attempts next
NextTarget(tk) == IF tk.pc = "batch" THEN tk.i + 1 ELSE tk.i + tk.j

\* the step ends the extraction of task t's target without a record
TargetFailed(t) ==
    /\ task[t].pc = "extracting"
    /\ task'[t].pc # "extracting"
    /\ task'[t].extracted = task[t].extracted

\* C7: a failed extraction of one target (no record, or an error) never aborts
\* the campaign: the run goes on to the next target of the list (to the top of
\* the batch loop after the last one) and the campaign's status is not changed
\* by the failure.
C7_FailureDoesNotAbort ==
    [][\A t \in Tasks :
          TargetFailed(t) =>
            /\ task'[t].pc \in {"target", "batch"}
            /\ task'[t].cid = task[t].cid
            /\ IF OnTarget(task[t]) < Len(active_campaigns[task[t].cid].extraction_targets)
               THEN NextTarget(task'[t]) = OnTarget(task[t]) + 1
               ELSE task'[t].pc = "batch"
            /\ active_campaigns'[task[t].cid].status = active_campaigns[task[t].cid].status]_vars

\* the first target of a run failed and the second is being extracted
C7_Witness ==
    \E t \in Tasks :
        /\ task[t].pc = "extracting"
        /\ OnTarget(task[t]) = 2
        /\ task[t].extracted = <<>>
        /\ active_campaigns[task[t].cid].status = "active"

\* C8: when the extraction loop runs to the end of the list without a pause,
\* processed_targets = total_targets and successful_extractions is the number of
\* records returned, whichever way a failing target failed.  Stated for the
\* first run of a campaign.
C8_AllProcessed ==
    \A t \in Tasks :
        LET campaign == active_campaigns[task[t].cid]
        IN (/\ task[t].pc = "analysis"
            /\ campaign.runs = 1
            /\ task[t].i >= Len(campaign.extraction_targets))
           => /\ campaign.processed_targets = campaign.total_targets
              /\ campaign.successful_extractions = Len(task[t].extracted)

\* C9: every session leased for an extraction is released when the extraction
\* ends: an entry of the pool is marked in use only while the extraction that
\* leased it is in progress.
C9_LeaseEndsWithExtraction ==
    \A x \in 1..Len(browser_pool) :
        browser_pool[x].in_use =>
            \E s \in Tasks :
                call[s].pc = "extracting" /\ call[s].browser = browser_pool[x].browser

\* an extraction ended with quit() failing on a browser above the ceiling: the
\* entry is back in the pool, free
C9_Witness ==
    \E x \in 1..Len(browser_pool) :
        /\ ~browser_pool[x].in_use
        /\ browser_pool[x].session_count > RetireCeiling

\* C10: the pool never holds more sessions than max_concurrent_sessions.
C10_PoolBounded == Len(browser_pool) <= MaxConcurrentSessions

\* the step ends the extraction of coroutine s: release_browser runs
Releases(s) == call[s].pc = "extracting" /\ call'[s].pc = "idle"

\* the step leases a browser to coroutine s
Leases(s) == call[s].pc # "extracting" /\ call'[s].pc = "extracting"

\* C11: release marks the session free; a session whose usage count exceeds the
\* retirement ceiling is removed from the pool in the same step, is never
\* leased again, and a replacement is scheduled; a session whose usage count
\* is at most the ceiling stays in the pool as free.
C11_RetiredOnRelease ==
    [][\A s \in Tasks :
          /\ Releases(s) =>
                LET id == call[s].browser
                    x == FirstOf(PoolIndex(browser_pool, id))
                IN IF browser_pool[x].session_count > RetireCeiling
                   THEN /\ PoolIndex(browser_pool', id) = {}
                        /\ replacements' = replacements + 1
                   ELSE \E y \in PoolIndex(browser_pool', id) : ~browser_pool'[y].in_use
          /\ Leases(s) =>
                \A x \in PoolIndex(browser_pool, call'[s].browser) :
                    browser_pool[x].session_count <= RetireCeiling]_vars

\* the step ends coroutine s's wait for create_stealth_browser without a browser
CreateFailed(s) ==
    /\ call[s].pc = "creating"
    /\ call'[s].pc # "creating"
    /\ next_browser' = next_browser

\* C12: when no session is free and none can be created, the acquire returns
\* None and leaves the pool unchanged; the extraction of the target yields no
\* record, the run goes on with the next target, and the campaign's status is
\* not changed (not moved to failed).
C12_UnavailableTolerated ==
    [][\A t \in Tasks :
          (task[t].pc = "extracting" /\ CreateFailed(t)) =>
            /\ call'[t] = IdleCall
            /\ browser_pool' = browser_pool
            /\ task'[t].extracted = task[t].extracted
            /\ task'[t].pc \in {"target", "batch"}
            /\ IF OnTarget(task[t]) < Len(active_campaigns[task[t].cid].extraction_targets)
               THEN NextTarget(task'[t]) = OnTarget(task[t]) + 1
               ELSE task'[t].pc = "batch"
            /\ active_campaigns'[task[t].cid].status = active_campaigns[task[t].cid].status
            /\ active_campaigns'[task[t].cid].status # "failed"]_vars

\* no browser could ever be created, the first target of a run was counted as
\* processed without a record, and the run is on its second target
C12_Witness ==
    \E t \in Tasks :
        /\ task[t].pc \in {"target", "extracting"}
        /\ OnTarget(task[t]) = 2
        /\ next_browser = 1
        /\ task[t].extracted = <<>>
        /\ active_campaigns[task[t].cid].processed_targets >= 1
        /\ active_campaigns[task[t].cid].status = "active"

\* the browsers created with proxy p and not quit
SessionsUsing(p) == {b \in 1..Len(proxy_of) : proxy_of[b] = p}

\* C13: for every egress identity, the number of sessions using it at once is
\* at most its max-concurrent-sessions: selection never picks an identity that
\* is already at its cap.
C13_IdentityCapRespected ==
    \A p \in 1..Len(proxy_pool) : Cardinality(SessionsUsing(p)) <= IdentitySessionCap

\* the step is the observation of outcome o
Observed(o) == risk_history' = Append(risk_history, o)

\* C14: the detection risk is in [0,1] in every reachable state, after any
\* sequence of observed outcomes; a detected outcome strictly increases it
\* unless it is already 1.0, and every success of a run of successes strictly
\* decreases it (while it is above 0), never below 0.
C14_RiskBoundedAndMonotone ==
    /\ [](detection_risk \in 0..RiskCeiling)
    /\ [][/\ (Observed("detected") /\ detection_risk < RiskCeiling)
                 => detection_risk' > detection_risk
          /\ (Observed("success") /\ detection_risk > 0)
                 => (detection_risk' < detection_risk /\ detection_risk' >= 0)]_vars

\* four detections in a row took the risk to 1.0 and a success lowered it
C14_Witness ==
    /\ risk_history = <<"detected", "detected", "detected", "detected", "success">>
    /\ detection_risk = 90

\* the step is task t's batch loop breaking off with targets left: the pause
BreaksOff(t) ==
    /\ task[t].pc = "batch"
    /\ task'[t].pc = "analysis"
    /\ task[t].i < Len(active_campaigns[task[t].cid].extraction_targets)

\* the step is task t's batch loop starting a batch
StartsBatch(t) == task[t].pc = "batch" /\ task'[t].pc = "target"

\* C15: the batch loop pauses the campaign exactly when the detection risk is
\* above operation_security.emergency_shutdown_threshold: it never pauses at a
\* risk at or below the threshold and never starts a batch at a risk above it.
C15_PauseAtEmergencyThreshold ==
    [][\A t \in Tasks :
          /\ BreaksOff(t) =>
                /\ detection_risk > EmergencyShutdownThreshold
                /\ active_campaigns'[task[t].cid].status = "paused"
          /\ StartsBatch(t) => detection_risk <= EmergencyShutdownThreshold]_vars

\* C16: the throttle table is monotonic in the stealth level: for levels a < b
\* delay_multiplier(a) <= delay_multiplier(b) and batch_size(a) >= batch_size(b),
\* every batch_size is at least 1, and the batch loop of a campaign uses the
\* entry of the campaign's stealth level: its batches start at multiples of that
\* batch_size and hold at most batch_size targets.
C16_ThrottleTableMonotone ==
    /\ \A a, b \in StealthModeLevels :
          a < b => /\ StealthDelayMultiplier(a) <= StealthDelayMultiplier(b)
                   /\ StealthBatchSize(a) >= StealthBatchSize(b)
    /\ \A a \in StealthModeLevels : StealthBatchSize(a) >= 1
    /\ \A t \in Tasks :
          task[t].pc \in {"batch", "target", "extracting"} =>
            LET level == active_campaigns[task[t].cid].stealth_level
            IN /\ task[t].batch_size = StealthBatchSize(level)
               /\ task[t].delay_multiplier = StealthDelayMultiplier(level)
               /\ task[t].i % task[t].batch_size = 0
               /\ task[t].j <= task[t].batch_size

\* a run at stealth level 4 extracts the second target of its batch of two
C16_Witness ==
    \E t \in Tasks :
        /\ task[t].pc = "extracting"
        /\ active_campaigns[task[t].cid].stealth_level = 4
        /\ task[t].batch_size = 2
        /\ task[t].j = 2

\* C17: the extraction attempts of a campaign happen in the order of the target
\* list: the targets attempted so far are a prefix of the list, each batch is
\* the next batch_size consecutive targets, and at most one extraction of the
\* campaign is in progress at a time.
C17_InOrderOneAtATime ==
    \A c \in Created :
        /\ \A k \in 2..MaxTargets : attempts[c][k] > 0 => attempts[c][k - 1] > 0
        /\ \A t \in Running(c) :
              task[t].pc \in {"target", "extracting"} =>
                /\ task[t].i % task[t].batch_size = 0
                /\ task[t].j \in 1..BatchLen(task[t], active_campaigns[c])
                /\ \A k \in 1..(OnTarget(task[t]) - 1) : attempts[c][k] > 0
        /\ Cardinality({t \in Running(c) : task[t].pc = "extracting"}) <= 1

\* C18: the tier of a lead is a function of its quality score alone: platinum
\* from 0.9, gold from 0.75 to below 0.9, silver from 0.6 to below 0.75, bronze
\* otherwise (0.92 platinum, 0.80 gold, 0.65 silver, 0.10 bronze).
C18_TierByScore ==
    lead # NoLead =>
        LET score == analysis.lead_quality_score
        IN /\ lead.lead_tier =
                 (IF score >= 90 THEN "platinum"
                  ELSE IF score >= 75 THEN "gold"
                  ELSE IF score >= 60 THEN "silver"
                  ELSE "bronze")
           /\ score = 92 => lead.lead_tier = "platinum"
           /\ score = 80 => lead.lead_tier = "gold"
           /\ score = 65 => lead.lead_tier = "silver"
           /\ score = 10 => lead.lead_tier = "bronze"

\* a lead whose score is exactly the platinum threshold
C18_Witness ==
    /\ lead # NoLead
    /\ analysis.lead_quality_score = 90
    /\ lead.lead_tier = "platinum"

Generates(t) == task[t].pc = "intelligence" /\ task'[t].pc = "idle"

\* C20: for every (campaign, record) pair at most one LeadIntelligence is among
\* the intelligence a campaign produces and keeps: a run creates no two reports
\* with one lead_id and none for a pair that already has one, also when the
\* target list names a target twice or the campaign is executed again.
C20_OneIntelligencePerPair ==
    [][\A t \in Tasks :
          Generates(t) =>
            LET reports == IntelligenceReports(active_campaigns[task[t].cid],
                                               task[t].cid, task[t].qualified)
            IN /\ \A m, n \in 1..Len(reports) : reports[m] = reports[n] => m = n
               /\ \A m \in 1..Len(reports) : reports[m] \notin lead_intelligence_cache]_vars

\* the step in which a stage's own handler catches an exception in task t's run
Faults(t) == task[t].fault = "none" /\ task'[t].fault # "none"

\* C21: an exception raised inside the orchestration itself, in any of the
\* stages extraction, scoring, qualification or intelligence synthesis, moves
\* the campaign to failed and ends the call of execute; the campaign is never
\* completed by a run in which such a fault happened.
C21_StageFaultFailsCampaign ==
    [][\A t \in Tasks :
          /\ (Faults(t) /\ task'[t].pc # "idle") =>
                active_campaigns'[task[t].cid].status = "failed"
          /\ (Generates(t) /\ task'[t].fault # "none") =>
                active_campaigns'[task[t].cid].status = "failed"]_vars

\* C28: in every reachable state of a campaign high_value_leads is at most
\* qualified_leads, whatever the relation between the campaign's qualification
\* threshold and the configured high-value threshold.
C28_HighValueWithinQualified ==
    \A c \in Created :
        active_campaigns[c].high_value_leads <= active_campaigns[c].qualified_leads

\* a campaign whose threshold is above the high-value threshold has counted a
\* lead, and a task holds an analysis that reached only the high-value threshold
C28_Witness ==
    \E c \in Created, t \in Tasks :
        /\ active_campaigns[c].lead_qualification_threshold > HighValueThreshold
        /\ active_campaigns[c].high_value_leads = 1
        /\ active_campaigns[c].qualified_leads = 1
        /\ task[t].cid = c
        /\ \E m \in 1..Len(task[t].analyses) :
              /\ task[t].analyses[m].lead_quality_score >= HighValueThreshold
              /\ task[t].analyses[m].lead_quality_score <
                    active_campaigns[c].lead_qualification_threshold

\* the step ends a call of execute for campaign c by raising: the handler has
\* set status failed and the caller gets the exception, no result
Raises(c) ==
    /\ active_campaigns[c] # NoCampaign
    /\ active_campaigns'[c].runs = active_campaigns[c].runs + 1
    /\ active_campaigns'[c].status = "failed"

\* C22: every call of execute that ends, with the campaign completed or failed,
\* gives the caller the campaign's processed, succeeded and qualified counts,
\* each equal to the campaign's counter at that moment.
C22_ResultReportsCounts ==
    [][/\ \A t \in Tasks :
             Generates(t) =>
               LET campaign == active_campaigns'[task[t].cid]
                   result == CampaignResult(campaign)
               IN /\ result.qualified_leads = campaign.qualified_leads
                  /\ "processed_targets" \in DOMAIN result
                  /\ "successful_extractions" \in DOMAIN result
       /\ \A c \in CampaignIds : ~Raises(c)]_vars

\* the positions of the target list named by the records of a list
Targets(records) == {records[m].target : m \in 1..Len(records)}

\* C23: scoring runs over the records of successful extractions only: a target
\* whose extraction failed in a run appears in no scored record, qualified lead
\* or LeadIntelligence of the run, and the number of scored records never
\* exceeds successful_extractions.
C23_OnlySuccessfulScored ==
    /\ [](\A t \in Tasks :
            task[t].pc # "idle" =>
              /\ Targets(task[t].analyses) \cap task[t].failed = {}
              /\ Targets(task[t].qualified) \cap task[t].failed = {}
              /\ Len(task[t].analyses) <=
                    active_campaigns[task[t].cid].successful_extractions)
    /\ [][\A t \in Tasks :
             Generates(t) =>
               LET campaign == active_campaigns[task[t].cid]
                   reports == IntelligenceReports(campaign, task[t].cid, task[t].qualified)
               IN \A m \in 1..Len(reports), k \in task[t].failed :
                     reports[m] # <<campaign.extraction_targets[k], task[t].cid>>]_vars

\* a run whose first target failed and whose second gave a record that was
\* scored and qualified
C23_Witness ==
    \E t \in Tasks :
        /\ task[t].pc = "intelligence"
        /\ task[t].failed = {1}
        /\ Targets(task[t].analyses) = {2}
        /\ Targets(task[t].qualified) = {2}

\* the step is task t's execute_lead_qualification returning its list
Qualifies(t) ==
    /\ task[t].pc = "analysis"
    /\ task'[t].pc = "intelligence"
    /\ task'[t].fault = task[t].fault

\* the place of record a in the list
PlaceIn(records, a) == CHOOSE m \in 1..Len(records) : records[m] = a

\* C24: a scored record qualifies if and only if its quality score is at least
\* the campaign's qualification threshold (a score equal to it qualifies);
\* qualified_leads grows by exactly one per qualifying record and not at all
\* for another, and the qualified records are in the order of the scored ones.
C24_QualifiesIffReachesThreshold ==
    [][\A t \in Tasks :
          Qualifies(t) =>
            LET c == task[t].cid
                threshold == active_campaigns[c].lead_qualification_threshold
                scored == task'[t].analyses
                leads == task'[t].qualified
                reaching == {m \in 1..Len(scored) :
                                scored[m].lead_quality_score >= threshold}
            IN /\ \A m \in 1..Len(scored) :
                     (m \in reaching) <=> (\E k \in 1..Len(leads) : leads[k] = scored[m])
               /\ \A k \in 1..Len(leads) : \E m \in reaching : leads[k] = scored[m]
               /\ active_campaigns'[c].qualified_leads =
                     active_campaigns[c].qualified_leads + Cardinality(reaching)
               /\ \A k, l \in 1..Len(leads) :
                     k < l => PlaceIn(scored, leads[k]) < PlaceIn(scored, leads[l])]_vars

\* a qualification over two records, the first below the threshold and the
\* second equal to it: the second alone qualified and was counted
C24_Witness ==
    \E t \in Tasks :
        /\ task[t].pc = "intelligence"
        /\ task[t].fault = "none"
        /\ Len(task[t].analyses) = 2
        /\ task[t].analyses[1].lead_quality_score <
              active_campaigns[task[t].cid].lead_qualification_threshold
        /\ task[t].analyses[2].lead_quality_score =
              active_campaigns[task[t].cid].lead_qualification_threshold
        /\ task[t].qualified = <<task[t].analyses[2]>>
        /\ active_campaigns[task[t].cid].qualified_leads = 1

\* the step ends the extraction stage of task t's run
EndsExtraction(t) == task[t].pc = "batch" /\ task'[t].pc = "analysis"

\* C29: when the extraction stage of a run ends, the list of records it hands
\* to scoring has exactly as many entries as the run added to
\* successful_extractions, also when the stage stops early on a pause or on an
\* internal error.
C29_HandedRecordsMatchCounter ==
    [][\A t \in Tasks :
          EndsExtraction(t) => Len(task'[t].extracted) = task'[t].succeeded]_vars

\* every identity of a filled proxy pool is inactive
AllInactive ==
    /\ proxy_pool # <<>>
    /\ \A x \in 1..Len(proxy_pool) : ~proxy_pool[x].is_active

\* C25: no session is ever created with an inactive egress identity: the
\* identity of a new session is one whose active flag is set, and when every
\* identity is inactive no session is created and the acquire that waited for
\* one returns None, leaving the pool as it was.
C25_NoInactiveIdentityChosen ==
    [][/\ next_browser' # next_browser =>
             LET p == proxy_of'[next_browser]
             IN IF proxy_pool = <<>>
                THEN p = 0
                ELSE p \in 1..Len(proxy_pool) /\ proxy_pool[p].is_active
       /\ AllInactive =>
             /\ next_browser' = next_browser
             /\ proxy_of' = proxy_of
             /\ \A s \in Tasks :
                   CreateFailed(s) => call'[s] = IdleCall /\ browser_pool' = browser_pool]_vars

\* an acquire found no free session and waits for a new one while every
\* identity is inactive
C25_Witness ==
    /\ AllInactive
    /\ \E s \in Tasks : call[s].pc = "creating"

\* C26: after extract_linkedin_profile of the simplified scraper returns, no
\* browser it opened is still open, whether it returned a record or None
\* because a step raised; and when Selenium is unavailable it returns None
\* without opening any browser.
C26_NoBrowserLeftOpen ==
    /\ [](open_browsers = 0)
    /\ [][(last_call'.op = "extract" /\ ~last_call'.selenium) =>
             (last_call'.result = "None" /\ open_browsers' = open_browsers)]_vars

\* the rows stored under a key
RowsOf(rows, id) == {r \in rows : r.profile_id = id}

\* the step is a save_profile that the database executed
Saves == last_call'.op = "save" /\ last_call'.stored

C30_NoLeaseAboveCeiling ==
    /\ [](\A x \in 1..Len(browser_pool) :
            browser_pool[x].in_use => browser_pool[x].session_count <= RetireCeiling + 1)
    /\ [][\A s \in Tasks :
             Releases(s) =>
               LET id == call[s].browser
                   x == FirstOf(PoolIndex(browser_pool, id))
               IN browser_pool[x].session_count > RetireCeiling =>
                     PoolIndex(browser_pool', id) = {}]_vars

Next ==
    \/ \E c \in CampaignIds, n \in 0..MaxTargets, level \in StealthLevelInputs,
          threshold \in ThresholdInputs :
            create_stealth_campaign(c, TargetList(n), level, threshold)
    \/ \E t \in Tasks, c \in CampaignIds : execute_stealth_campaign(t, c)
    \/ \E t \in Tasks : BatchStart(t)
    \/ \E t \in Tasks : ExtractBegin(t)
    \/ \E t \in Tasks, created \in BOOLEAN : CreateDone(t, created)
    \/ \E t \in Tasks, outcome \in {"record", "none", "raise"}, quit_ok \in BOOLEAN :
            ExtractEnd(t, outcome, quit_ok)
    \/ \E t \in Tasks :
          \E result \in [1..Len(task[t].extracted) -> ScoreValues \cup {-1}] :
            execute_lead_qualification(t, result)
    \/ \E t \in Tasks : generate_lead_intelligence(t)
    \/ \E created \in BOOLEAN : initialize_browser_pool(created)
    \/ \E created \in BOOLEAN : create_replacement_browser(created)
    \/ \E r \in RiskValues : continuous_security_monitoring(r)

Spec == Init /\ [][Next]_vars

\* the session pool under direct concurrent calls of extract_linkedin_profile
PoolNext ==
    \/ \E s \in Tasks : DirectCall(s)
    \/ \E s \in Tasks, created \in BOOLEAN : DirectCreateDone(s, created)
    \/ \E s \in Tasks, quit_ok \in BOOLEAN : DirectReturn(s, quit_ok)
    \/ \E created \in BOOLEAN : initialize_browser_pool(created)
    \/ \E created \in BOOLEAN : create_replacement_browser(created)

PoolSpec == Init /\ [][PoolNext]_vars

\* the session pool and the proxy pool initialize_components fills
EgressNext ==
    \/ initialize_proxy_pool
    \/ \E p \in 1..NumProxies : deactivate_proxy(p)
    \/ PoolNext

EgressSpec == Init /\ [][EgressNext]_vars

\* the coroutine whose runs IntelSpec follows
IntelTask == 1

\* the target lists of at most MaxTargets entries, repeated targets included
TargetLists == UNION {[1..n -> 1..NumProfiles] : n \in 0..MaxTargets}

\* one execute_stealth_campaign at a time, over any target list
IntelNext ==
    \/ \E c \in CampaignIds, targets \in TargetLists, level \in StealthLevelInputs,
          threshold \in ThresholdInputs :
            create_stealth_campaign(c, targets, level, threshold)
    \/ \E c \in CampaignIds : execute_stealth_campaign(IntelTask, c)
    \/ BatchStart(IntelTask)
    \/ ExtractBegin(IntelTask)
    \/ \E created \in BOOLEAN : CreateDone(IntelTask, created)
    \/ \E outcome \in {"record", "none", "raise"}, quit_ok \in BOOLEAN :
            ExtractEnd(IntelTask, outcome, quit_ok)
    \/ \E result \in [1..Len(task[IntelTask].extracted) -> ScoreValues \cup {-1}] :
            execute_lead_qualification(IntelTask, result)
    \/ generate_lead_intelligence(IntelTask)
    \/ \E created \in BOOLEAN : initialize_browser_pool(created)
    \/ \E created \in BOOLEAN : create_replacement_browser(created)

IntelSpec == Init /\ [][IntelNext]_vars

\* one execute_stealth_campaign at a time, with the exceptions the stages'
\* own handlers catch
FaultNext ==
    \/ \E c \in CampaignIds, n \in 0..MaxTargets, level \in StealthLevelInputs,
          threshold \in ThresholdInputs :
            create_stealth_campaign(c, TargetList(n), level, threshold)
    \/ \E c \in CampaignIds : execute_stealth_campaign(IntelTask, c)
    \/ BatchStart(IntelTask)
    \/ ExtractBegin(IntelTask)
    \/ \E created \in BOOLEAN : CreateDone(IntelTask, created)
    \/ \E outcome \in {"record", "none", "raise"}, quit_ok \in BOOLEAN :
            ExtractEnd(IntelTask, outcome, quit_ok)
    \/ \E result \in [1..Len(task[IntelTask].extracted) -> QualityValues \cup {-1}] :
            execute_lead_qualification(IntelTask, result)
    \/ generate_lead_intelligence(IntelTask)
    \/ \E created \in BOOLEAN : initialize_browser_pool(created)
    \/ \E created \in BOOLEAN : create_replacement_browser(created)
    \/ \E r \in RiskValues : continuous_security_monitoring(r)
    \/ ExtractionFault(IntelTask)
    \/ AnalysisFault(IntelTask)
    \/ \E result \in [1..Len(task[IntelTask].extracted) -> QualityValues \cup {-1}],
          k \in 1..MaxTargets :
            QualificationFault(IntelTask, result, k)
    \/ IntelligenceFault(IntelTask)

FaultSpec == Init /\ [][FaultNext]_vars

\* the simplified scraper: extractions and saves, one call after another
SimpleNext ==
    \/ \E selenium_available \in BOOLEAN, failing \in FailingSteps :
            ExtractProfile(selenium_available, failing, NoProfile, TRUE)
    \/ \E profile_data \in ProfileData, db_ok \in BOOLEAN :
            ExtractProfile(TRUE, "none", profile_data, db_ok)
    \/ \E profile_data \in ProfileData, db_ok \in BOOLEAN : SaveProfile(profile_data, db_ok)

SimpleSpec == Init /\ [][SimpleNext]_vars

\* the scoring of one analysis after another
ScoreNext ==
    \/ \E profile \in 1..NumProfiles, quality \in QualityInputs,
          conversion \in ConversionInputs, engagement \in EngagementInputs,
          propensity \in PropensityInputs :
            analyze_profile_neural(profile, quality, conversion, engagement, propensity)
    \/ \E c \in CampaignIds : create_lead_intelligence(c)

ScoreSpec == Init /\ [][ScoreNext]_vars

\* the risk estimate under any sequence of observed outcomes
RiskNext == \E outcome \in Outcomes : observe(outcome)

RiskSpec == Init /\ [][RiskNext]_vars
====
